---- MODULE Spec2Model ----
(***************************************************************************)
(* A model of the cadl data-store emitter (src/src/index.ts): the          *)
(* $store decorator, $onEmit, and the TypeScript emitter created by        *)
(* createTsEmitter (emit, emitStoreInterface, getTypeReference,            *)
(* generateArrayType, generateModelType, getModelDeclarationName).         *)
(*                                                                         *)
(* Strings are TLA+ strings, built with \o exactly as the template         *)
(* literals and joins of the source build them.  A function of the source  *)
(* that mutates the emitter's closure state (typeDecls, knownTypes) is an  *)
(* operator from the state before the call to the outcome of the call:     *)
(* the state after it, the value returned, and the message of the Error    *)
(* thrown ("" when the call returns normally).                             *)
(***************************************************************************)
EXTENDS Integers, Sequences, FiniteSets, TLC

VARIABLES
  stateMap,     \* p.stateMap(storeKey): the registered types, in insertion order
  pc,           \* where $onEmit / emit() stand
  idx,          \* position of emit's for..of loop in stateMap
  typeDecls,    \* the emitter's typeDecls: string[]
  declOf,       \* history: declOf[i] is the Type whose declaration typeDecls[i] is
  knownTypes,   \* the emitter's knownTypes: Map<Type, string>
  writes,       \* history: every writeFile call issued, in order
  pending,      \* indices of writes whose writeFile promise is still pending
  stage,        \* stage[w]: how far the file system is with write w
  files,        \* the output directory: path -> content of the file, as pieces of written data
  onEmitDone,   \* the promise returned by $onEmit has resolved
  thrown,       \* message of the Error that rejected emit(), "" if none
  calls,        \* history of getTypeReference calls of the resolver specification
  named         \* last getModelDeclarationName call of the resolver specification

vars == <<stateMap, pc, idx, typeDecls, declOf, knownTypes, writes, pending, stage,
          files, onEmitDone, thrown, calls, named>>

-----------------------------------------------------------------------------
(* Bounds of the model. *)

\* Number of $store registrations explored.
MaxRegs == 2

\* Depth of nested getTypeReference calls at which the engine's call stack is
\* exhausted (V8 throws RangeError).  Every acyclic graph of the universe
\* below nests less deeply.
MaxStack == 8

\* Number of successive getTypeReference calls of one pass explored by the
\* resolver specification.
MaxCalls == 2

-----------------------------------------------------------------------------
(* The type graph supplied by the compiler. *)

Prop(name, optional, type) == [name |-> name, optional |-> optional, type |-> type]

\* A Type node.  intrinsicName is what getIntrinsicModelName(p, type) returns
\* ("" for undefined); hasTemplateArguments is templateArguments !== undefined.
TypeNode(kind, name, intrinsicName, properties, hasTemplateArguments, templateArguments, elementType, options, value) ==
  [kind |-> kind, name |-> name, intrinsicName |-> intrinsicName,
   properties |-> properties, hasTemplateArguments |-> hasTemplateArguments,
   templateArguments |-> templateArguments, elementType |-> elementType,
   options |-> options, value |-> value]

IntrinsicT(name, intrinsicName) ==
  TypeNode("Model", name, intrinsicName, <<>>, FALSE, <<>>, "", <<>>, 0)
ModelT(name, properties) ==
  TypeNode("Model", name, "", properties, FALSE, <<>>, "", <<>>, 0)
TemplateT(name, templateArguments, properties) ==
  TypeNode("Model", name, "", properties, TRUE, templateArguments, "", <<>>, 0)
ArrayT(elementType) ==
  TypeNode("Array", "", "", <<>>, FALSE, <<>>, elementType, <<>>, 0)
UnionT(options) ==
  TypeNode("Union", "", "", <<>>, FALSE, <<>>, "", options, 0)
NumberT(value) ==
  TypeNode("Number", "", "", <<>>, FALSE, <<>>, "", <<>>, value)
OtherT(kind, name) ==
  TypeNode(kind, name, "", <<>>, FALSE, <<>>, "", <<>>, 0)

\* The universe of Type nodes.  A node's key is its identity (the object
\* reference of the source); "User" and "UserB" are two distinct Models that
\* are both named User.
Types ==
     ("string"   :> IntrinsicT("string", "string"))
  @@ ("int32"    :> IntrinsicT("int32", "int32"))
  @@ ("int16"    :> IntrinsicT("int16", "int16"))
  @@ ("float16"  :> IntrinsicT("float16", "float16"))
  @@ ("float32"  :> IntrinsicT("float32", "float32"))
  @@ ("int64"    :> IntrinsicT("int64", "int64"))
  @@ ("boolean"  :> IntrinsicT("boolean", "boolean"))
  @@ ("float64"  :> IntrinsicT("float64", "float64"))
  @@ ("bytes"    :> IntrinsicT("bytes", "bytes"))
  @@ ("MyId"     :> IntrinsicT("MyId", "string"))
  @@ ("string[]" :> ArrayT("string"))
  @@ ("Pet[]"    :> ArrayT("Pet"))
  @@ ("User[]"   :> ArrayT("User"))
  @@ ("User[][]" :> ArrayT("User[]"))
  @@ ("Tree[]"   :> ArrayT("Tree"))
  @@ ("(string|int32)[]" :> ArrayT("string|int32"))
  @@ ("string|int32" :> UnionT(<<"string", "int32">>))
  @@ ("User|Pet"     :> UnionT(<<"User", "Pet">>))
  @@ ("Expr|int32"   :> UnionT(<<"Expr", "int32">>))
  @@ ("42"       :> NumberT(42))
  @@ ("-7"       :> NumberT(-7))
  @@ ("Color"    :> OtherT("Enum", "Color"))
  @@ ("hello"    :> OtherT("String", ""))
  @@ ("Empty"    :> TemplateT("Empty", <<>>, <<>>))
  @@ ("User"     :> ModelT("User", <<Prop("id", FALSE, "string"),
                                     Prop("age", TRUE, "int32")>>))
  @@ ("UserB"    :> ModelT("User", <<Prop("email", FALSE, "string")>>))
  @@ ("Pet"      :> ModelT("Pet", <<Prop("name", FALSE, "string"),
                                    Prop("tags", TRUE, "string[]")>>))
  @@ ("Owner"    :> ModelT("Owner", <<Prop("pet", FALSE, "Pet"),
                                      Prop("others", FALSE, "Pet[]"),
                                      Prop("friend", TRUE, "User|Pet"),
                                      Prop("id", FALSE, "MyId")>>))
  @@ ("Shelter"  :> ModelT("Shelter", <<Prop("owner", FALSE, "Owner"),
                                        Prop("mascot", TRUE, "Pet"),
                                        Prop("big", FALSE, "int64"),
                                        Prop("color", FALSE, "Color"),
                                        Prop("version", FALSE, "42"),
                                        Prop("open", FALSE, "boolean")>>))
  @@ ("Both"     :> ModelT("Both", <<Prop("a", FALSE, "User"),
                                     Prop("b", FALSE, "UserB")>>))
  @@ ("Misc"     :> ModelT("Misc", <<Prop("f16", FALSE, "float16"),
                                     Prop("f32", FALSE, "float32"),
                                     Prop("i16", TRUE, "int16"),
                                     Prop("neg", FALSE, "-7"),
                                     Prop("lit", FALSE, "hello"),
                                     Prop("either", FALSE, "string|int32"),
                                     Prop("grid", FALSE, "User[][]")>>))
  @@ ("Node"     :> ModelT("Node", <<Prop("owner", FALSE, "User"),
                                     Prop("next", TRUE, "Node")>>))
  @@ ("Tree"     :> ModelT("Tree", <<Prop("children", FALSE, "Tree[]")>>))
  @@ ("Expr"     :> ModelT("Expr", <<Prop("arg", FALSE, "Expr|int32")>>))
  @@ ("Ping"     :> ModelT("Ping", <<Prop("pong", FALSE, "Pong")>>))
  @@ ("Pong"     :> ModelT("Pong", <<Prop("ping", FALSE, "Ping")>>))
  @@ ("Account"  :> ModelT("Account", <<Prop("balance", FALSE, "float64")>>))
  @@ ("Mixed"    :> ModelT("Mixed", <<Prop("user", FALSE, "User"),
                                      Prop("blob", FALSE, "bytes"),
                                      Prop("pet", FALSE, "Pet")>>))
  @@ ("Page<User>"   :> TemplateT("Page", <<"User">>,
                          <<Prop("items", FALSE, "User[]"),
                            Prop("total", FALSE, "int32")>>))
  @@ ("Page<User[]>" :> TemplateT("Page", <<"User[]">>,
                          <<Prop("items", FALSE, "User[][]")>>))
  @@ ("Page<Page<User>>" :> TemplateT("Page", <<"Page<User>">>,
                          <<Prop("item", FALSE, "Page<User>")>>))
  @@ ("Pair<User,Pet>"   :> TemplateT("Pair", <<"User", "Pet">>,
                          <<Prop("first", FALSE, "User"),
                            Prop("second", FALSE, "Pet")>>))
  @@ ("Box<string>"  :> TemplateT("Box", <<"string">>,
                          <<Prop("value", FALSE, "string")>>))
  @@ ("Box<42>"      :> TemplateT("Box", <<"42">>,
                          <<Prop("tag", FALSE, "Pet"),
                            Prop("value", FALSE, "42")>>))
  @@ ("Box<string|int32>" :> TemplateT("Box", <<"string|int32">>,
                          <<Prop("value", FALSE, "string|int32")>>))
  @@ ("Box<(string|int32)[]>" :> TemplateT("Box", <<"(string|int32)[]">>,
                          <<Prop("value", FALSE, "(string|int32)[]")>>))
  @@ ("Holder"   :> ModelT("Holder", <<Prop("box", FALSE, "Box<42>"),
                                       Prop("user", FALSE, "User")>>))

TypeIds == DOMAIN Types
Models == {t \in TypeIds : Types[t].kind = "Model"}

\* getIntrinsicModelName(p, type) of @cadl-lang/compiler, read off the node.
getIntrinsicModelName(type) == Types[type].intrinsicName

\* p.compilerOptions.outputPath
outputPath == "out"

-----------------------------------------------------------------------------
(* Strings. *)

RECURSIVE join(_, _)
\* Array.prototype.join(sep)
join(strs, sep) ==
  IF Len(strs) = 0 THEN ""
  ELSE IF Len(strs) = 1 THEN strs[1]
  ELSE strs[1] \o sep \o join(Tail(strs), sep)

\* path.join(a, b) on two non-empty relative segments
pathJoin(a, b) == a \o "/" \o b

Digit(d) ==
  CASE d = 0 -> "0" [] d = 1 -> "1" [] d = 2 -> "2" [] d = 3 -> "3"
    [] d = 4 -> "4" [] d = 5 -> "5" [] d = 6 -> "6" [] d = 7 -> "7"
    [] d = 8 -> "8" [] d = 9 -> "9"

RECURSIVE natToString(_)
natToString(n) ==
  IF n < 10 THEN Digit(n) ELSE natToString(n \div 10) \o Digit(n % 10)

\* Number.prototype.toString() of an integer value
numberToString(n) == IF n < 0 THEN "-" \o natToString(-n) ELSE natToString(n)

\* Variant of instrinsicNameToTSType that maps int64 to number.
instrinsicNameToTSType_int64Number ==
     ("string"  :> "string")
  @@ ("int32"   :> "number")
  @@ ("int16"   :> "number")
  @@ ("float16" :> "number")
  @@ ("float32" :> "number")
  @@ ("int64"   :> "number")
  @@ ("boolean" :> "boolean")

\* instrinsicNameToTSType
instrinsicNameToTSType ==
     ("string"  :> "string")
  @@ ("int32"   :> "number")
  @@ ("int16"   :> "number")
  @@ ("float16" :> "number")
  @@ ("float32" :> "number")
  @@ ("int64"   :> "bigint")
  @@ ("boolean" :> "boolean")

\* The template literal of emitStoreInterface, with model.name substituted.
storeTemplate(name) ==
  "\n    import { CosmosClient, Database, Container } from \"@azure/cosmos\";\n\n    class "
  \o name \o
  "Store {\n      private client: CosmosClient;\n      private databaseId: string;\n      private containerId: string;\n      private container!: Container;\n      private database!: Database;\n      constructor(client: CosmosClient, databaseId: string, containerId: string) {\n        this.client = client;\n        this.databaseId = databaseId;\n        this.containerId = containerId;\n      }\n    \n      async init() {\n        const { database } = await this.client.databases.createIfNotExists({\n          id: this.databaseId,\n        });\n        const { container } = await database.containers.createIfNotExists({\n          id: this.containerId,\n        });\n        this.database = database;\n        this.container = container;\n      }\n    \n      async get(id: string): Promise<"
  \o name \o
  "> {\n        let { resource } = await this.container.item(id).read();\n        return resource;\n      }\n    }    \n    "

-----------------------------------------------------------------------------
(* The resolver: getTypeReference and what it calls. *)

\* The emitter's closure state.
Emitter(decls, owners, known) ==
  [typeDecls |-> decls, declOf |-> owners, knownTypes |-> known]

\* createTsEmitter: typeDecls = [], knownTypes = new Map()
createTsEmitter == Emitter(<<>>, <<>>, <<>>)

\* Outcome of a call: normal return of v, or an Error thrown with message msg.
Return(em, v) == [em |-> em, error |-> "", value |-> v]
Throw(em, msg) == [em |-> em, error |-> msg, value |-> ""]

UnknownIntrinsic(intrinsicName) == "Unknown intrinsic type " \o intrinsicName
UnsupportedTemplateArgument ==
  "Can't get a name for non-model type used to instantiate a model template"
\* The RangeError V8 throws when the call stack is exhausted.
StackOverflow == "Maximum call stack size exceeded"

RECURSIVE getModelDeclarationName(_)
RECURSIVE mapParameterNames(_, _, _)

\* Variant of arrayParameterName that suffixes '[]' instead of 'Array'.
arrayParameterName_brackets(e) ==
  IF e.error # "" THEN e ELSE [error |-> "", value |-> e.value \o "[]"]

\* An Array argument whose element is a Model: the element's name plus 'Array'.
arrayParameterName(e) ==
  IF e.error # "" THEN e ELSE [error |-> "", value |-> e.value \o "Array"]

\* The callback of templateArguments.map in getModelDeclarationName.
parameterName(t) ==
  CASE Types[t].kind = "Model" -> getModelDeclarationName(t)
    [] Types[t].kind = "Array" /\ Types[Types[t].elementType].kind = "Model" ->
         arrayParameterName(getModelDeclarationName(Types[t].elementType))
    [] OTHER -> [error |-> UnsupportedTemplateArgument, value |-> ""]

\* One step of templateArguments.map: h is the callback's outcome for
\* argument i; a throw abandons the map.
nextParameterName(h, templateArguments, i, names) ==
  IF h.error # "" THEN h
  ELSE mapParameterNames(templateArguments, i + 1, Append(names, h.value))

\* templateArguments.map(callback) from argument i on, names collected so far.
mapParameterNames(templateArguments, i, names) ==
  IF i > Len(templateArguments) THEN [error |-> "", value |-> names]
  ELSE nextParameterName(parameterName(templateArguments[i]), templateArguments, i, names)

\* type.name + parameterNames.join("")
templateName(type, parameterNames) ==
  IF parameterNames.error # "" THEN parameterNames
  ELSE [error |-> "", value |-> Types[type].name \o join(parameterNames.value, "")]

getModelDeclarationName(type) ==
  IF ~Types[type].hasTemplateArguments \/ Len(Types[type].templateArguments) = 0
  THEN [error |-> "", value |-> Types[type].name]
  ELSE templateName(type, mapParameterNames(Types[type].templateArguments, 1, <<>>))

\* knownTypes.set(type, typeRef)
mapSet(known, type, typeRef) ==
  [t \in DOMAIN known \cup {type} |-> IF t = type THEN typeRef ELSE known[t]]

\* The text pushed for one property by generateModelType.
propertyText(prop, ref) ==
  prop.name \o (IF prop.optional THEN "?" ELSE "") \o ": " \o ref

\* The interface declaration built by generateModelType.
interfaceText(typeRef, props) ==
  "interface " \o typeRef \o " {\n      " \o join(props, ",") \o "\n    }"

RECURSIVE getTypeReference(_, _, _)
RECURSIVE mapOptions(_, _, _, _, _)
RECURSIVE resolveProperties(_, _, _, _, _)

\* One step of type.options.map(getTypeReference): h is the outcome of the
\* call for option i.
nextOption(h, options, i, refs, depth) ==
  IF h.error # "" THEN h
  ELSE mapOptions(options, i + 1, h.em, Append(refs, h.value), depth)

\* type.options.map(getTypeReference) from option i on: the references of the
\* options, in order.
mapOptions(options, i, em, refs, depth) ==
  IF i > Len(options) THEN Return(em, refs)
  ELSE nextOption(getTypeReference(options[i], em, depth), options, i, refs, depth)

\* Variant of unionReference that joins with " | ".
unionReference_spaced(refs) ==
  IF refs.error # "" THEN refs ELSE Return(refs.em, join(refs.value, " | "))

\* .join("|") of the options' references
unionReference(refs) ==
  IF refs.error # "" THEN refs ELSE Return(refs.em, join(refs.value, "|"))

\* `${getTypeReference(type.elementType)}[]`
arrayReference(e) ==
  IF e.error # "" THEN e ELSE Return(e.em, e.value \o "[]")

generateArrayType(type, em, depth) ==
  arrayReference(getTypeReference(Types[type].elementType, em, depth))

\* One iteration of generateModelType's loop: h is the outcome of
\* getTypeReference(prop.type) for property i; props.push(...) on return.
nextProperty(h, properties, i, props, depth) ==
  IF h.error # "" THEN h
  ELSE resolveProperties(properties, i + 1, h.em,
                         Append(props, propertyText(properties[i], h.value)), depth)

\* The for..of loop of generateModelType over type.properties.values(), from
\* property i on.
resolveProperties(properties, i, em, props, depth) ==
  IF i > Len(properties) THEN Return(em, props)
  ELSE nextProperty(getTypeReference(properties[i].type, em, depth),
                    properties, i, props, depth)

\* Variant of declareModel that pushes the declaration but never records the
\* Model in knownTypes.
declareModel_noMemo(type, props, typeRef) ==
  IF props.error # "" THEN props
  ELSE IF typeRef.error # "" THEN Throw(props.em, typeRef.error)
  ELSE Return(Emitter(Append(props.em.typeDecls,
                             interfaceText(typeRef.value, props.value)),
                      Append(props.em.declOf, type),
                      props.em.knownTypes),
              typeRef.value)

\* generateModelType after its loop: props is the loop's outcome, typeRef the
\* outcome of getModelDeclarationName(type), called once the loop is over.
declareModel(type, props, typeRef) ==
  IF props.error # "" THEN props
  ELSE IF typeRef.error # "" THEN Throw(props.em, typeRef.error)
  ELSE Return(Emitter(Append(props.em.typeDecls,
                             interfaceText(typeRef.value, props.value)),
                      Append(props.em.declOf, type),
                      mapSet(props.em.knownTypes, type, typeRef.value)),
              typeRef.value)

\* Variant of generateModelType that declares and records a composite Model
\* before it resolves the Model's properties.
generateModelType_declareFirst(type, em, depth) ==
  IF getIntrinsicModelName(type) # ""
  THEN IF getIntrinsicModelName(type) \notin DOMAIN instrinsicNameToTSType
       THEN Throw(em, UnknownIntrinsic(getIntrinsicModelName(type)))
       ELSE Return(em, instrinsicNameToTSType[getIntrinsicModelName(type)])
  ELSE LET typeRef == Types[type].name
           first == Emitter(Append(em.typeDecls, interfaceText(typeRef, <<>>)),
                            Append(em.declOf, type),
                            mapSet(em.knownTypes, type, typeRef))
           props == resolveProperties(Types[type].properties, 1, first, <<>>, depth)
       IN  IF props.error # "" THEN props ELSE Return(props.em, typeRef)

generateModelType(type, em, depth) ==
  IF getIntrinsicModelName(type) # ""
  THEN IF getIntrinsicModelName(type) \notin DOMAIN instrinsicNameToTSType
       THEN Throw(em, UnknownIntrinsic(getIntrinsicModelName(type)))
       ELSE Return(em, instrinsicNameToTSType[getIntrinsicModelName(type)])
  ELSE declareModel(type,
                    resolveProperties(Types[type].properties, 1, em, <<>>, depth),
                    getModelDeclarationName(type))

\* Variant of getTypeReference without the knownTypes lookup.
getTypeReference_noLookup(type, em, depth) ==
  IF depth > MaxStack THEN Throw(em, StackOverflow)
  ELSE CASE Types[type].kind = "Model" -> generateModelType(type, em, depth + 1)
         [] Types[type].kind = "Array" -> generateArrayType(type, em, depth + 1)
         [] Types[type].kind = "Number" ->
              Return(em, numberToString(Types[type].value))
         [] Types[type].kind = "Union" ->
              unionReference(mapOptions(Types[type].options, 1, em, <<>>, depth + 1))
         [] OTHER -> Return(em, "{}")

\* depth counts the getTypeReference calls on the stack, this one included.
getTypeReference(type, em, depth) ==
  IF depth > MaxStack THEN Throw(em, StackOverflow)
  ELSE IF type \in DOMAIN em.knownTypes THEN Return(em, em.knownTypes[type])
  ELSE CASE Types[type].kind = "Model" -> generateModelType(type, em, depth + 1)
         [] Types[type].kind = "Array" -> generateArrayType(type, em, depth + 1)
         [] Types[type].kind = "Number" ->
              Return(em, numberToString(Types[type].value))
         [] Types[type].kind = "Union" ->
              unionReference(mapOptions(Types[type].options, 1, em, <<>>, depth + 1))
         [] OTHER -> Return(em, "{}")

-----------------------------------------------------------------------------
(* The store declaration builder. *)

RECURSIVE appendDecls(_, _)
\* for (const decl of typeDecls) storeCode += decl + "\n"
appendDecls(storeCode, decls) ==
  IF decls = <<>> THEN storeCode
  ELSE appendDecls(storeCode \o Head(decls) \o "\n", Tail(decls))

\* A writeFile(outPath, storeCode) call; model and declOf are history (the root
\* the artifact is for, and the Types whose declarations storeCode holds).
WriteFile(model, outPath, storeCode, owners) ==
  [model |-> model, path |-> outPath, data |-> storeCode, declOf |-> owners]

\* emitStoreInterface(model, collectionName) run on closure state em: the
\* closure state it leaves, the Error it throws ("" if none), and the
\* writeFile calls it issues.
\* emitStoreInterface after getTypeReference(model): ref is that call's outcome.
writeStoreCode(model, ref) ==
  IF ref.error # "" THEN [em |-> ref.em, error |-> ref.error, wrote |-> <<>>]
  ELSE [em |-> ref.em, error |-> "",
        wrote |-> <<WriteFile(model,
                      pathJoin(pathJoin(outputPath, "store"), Types[model].name \o ".ts"),
                      appendDecls(storeTemplate(Types[model].name), ref.em.typeDecls),
                      ref.em.declOf)>>]

emitStoreInterface(model, em) ==
  writeStoreCode(model, getTypeReference(model, Emitter(<<>>, <<>>, em.knownTypes), 1))

Range(s) == {s[i] : i \in DOMAIN s}

\* $store: program.stateMap(storeKey).set(t, false).  Setting a key the Map
\* already holds keeps its position and its value.  The registered types are
\* Models: emit reads the map as Map<ModelType, any>.
Store(t) ==
  /\ pc = "compile"
  /\ t \in Range(stateMap) \/ Len(stateMap) < MaxRegs
  /\ stateMap' = IF t \in Range(stateMap) THEN stateMap ELSE Append(stateMap, t)
  /\ UNCHANGED <<pc, idx, typeDecls, declOf, knownTypes, writes, pending, stage, files,
                 onEmitDone, thrown, calls, named>>

\* $onEmit: creates the emitter and calls emit(), which runs up to its
\* await of mkdir; the promise emit() returns is dropped and $onEmit returns.
OnEmit ==
  /\ pc = "compile"
  /\ pc' = "mkdir"
  /\ typeDecls' = createTsEmitter.typeDecls
  /\ declOf' = createTsEmitter.declOf
  /\ knownTypes' = createTsEmitter.knownTypes
  /\ onEmitDone' = TRUE
  /\ UNCHANGED <<stateMap, idx, writes, pending, stage, files, thrown, calls, named>>

\* emit() resumes after mkdir and enters the for..of loop over the state map.
MkdirDone ==
  /\ pc = "mkdir"
  /\ pc' = IF Len(stateMap) = 0 THEN "resolved" ELSE "loop"
  /\ idx' = 1
  /\ UNCHANGED <<stateMap, typeDecls, declOf, knownTypes, writes, pending, stage, files,
                 onEmitDone, thrown, calls, named>>

\* One iteration of emit's loop.  An Error thrown by emitStoreInterface leaves
\* the loop and rejects the promise of emit().  writeFile hands the open of
\* its file to the file system at once and returns a pending promise; the
\* loop awaits nothing, so what follows the open (WriteData, WriteDone) waits
\* until emit() has settled, while the open itself (WriteOpen) may be carried
\* out between the loop's iterations.
Emit ==
  /\ pc = "loop"
  /\ \E r \in {emitStoreInterface(stateMap[idx], Emitter(typeDecls, declOf, knownTypes))} :
         /\ typeDecls' = r.em.typeDecls
         /\ declOf' = r.em.declOf
         /\ knownTypes' = r.em.knownTypes
         /\ writes' = writes \o r.wrote
         /\ pending' = pending \cup (Len(writes) + 1 .. Len(writes) + Len(r.wrote))
         /\ stage' = stage \o [i \in 1 .. Len(r.wrote) |-> "issued"]
         /\ thrown' = r.error
         /\ pc' = IF r.error # "" THEN "rejected"
                  ELSE IF idx = Len(stateMap) THEN "resolved" ELSE "loop"
         /\ idx' = IF r.error # "" THEN idx ELSE idx + 1
  /\ UNCHANGED <<stateMap, files, onEmitDone, calls, named>>

\* The content of a file is a sequence of pieces: piece [write |-> w,
\* from |-> a, to |-> b] stands for characters a..b of writes[w].data.
wholeData(w) == <<[write |-> w, from |-> 1, to |-> Len(writes[w].data)]>>

RECURSIVE dropChars(_, _)
\* content without its first n characters
dropChars(content, n) ==
  IF content = <<>> \/ n = 0 THEN content
  ELSE IF Head(content).to - Head(content).from + 1 <= n
       THEN dropChars(Tail(content), n - (Head(content).to - Head(content).from + 1))
       ELSE <<[Head(content) EXCEPT !.from = @ + n]>> \o Tail(content)

\* write(fd, data) at offset 0 of a file holding content: the data replaces
\* the first characters and what lies beyond its end stays.
overwrite(content, w) == wholeData(w) \o dropChars(content, Len(writes[w].data))

\* writeFile, first step: open(path, 'w') creates the file or truncates it.
\* The file system carries it out any time after the call.
WriteOpen(w) ==
  /\ pc # "exited"
  /\ w \in DOMAIN stage
  /\ stage[w] = "issued"
  /\ stage' = [stage EXCEPT ![w] = "open"]
  /\ files' = mapSet(files, writes[w].path, <<>>)
  /\ UNCHANGED <<stateMap, pc, idx, typeDecls, declOf, knownTypes, writes, pending,
                 onEmitDone, thrown, calls, named>>

\* writeFile, second step: once the open has been delivered (emit's loop is
\* over) the data is written at the start of the file.
WriteData(w) ==
  /\ pc \in {"resolved", "rejected"}
  /\ w \in DOMAIN stage
  /\ stage[w] = "open"
  /\ stage' = [stage EXCEPT ![w] = "written"]
  /\ files' = mapSet(files, writes[w].path, overwrite(files[writes[w].path], w))
  /\ UNCHANGED <<stateMap, pc, idx, typeDecls, declOf, knownTypes, writes, pending,
                 onEmitDone, thrown, calls, named>>

\* writeFile, last step: the file is closed and the promise settles.
\* (mkdir and writeFile are taken to succeed.)
WriteDone(w) ==
  /\ pc \in {"resolved", "rejected"}
  /\ w \in DOMAIN stage
  /\ stage[w] = "written"
  /\ stage' = [stage EXCEPT ![w] = "closed"]
  /\ pending' = pending \ {w}
  /\ UNCHANGED <<stateMap, pc, idx, typeDecls, declOf, knownTypes, writes, files,
                 onEmitDone, thrown, calls, named>>

\* Nothing handles the rejection of emit(): $onEmit dropped the promise.
\* Where the runtime throws on unhandled rejections (Node's default since
\* version 15) the process ends when the rejection is found unhandled, before
\* the open of any write is delivered; elsewhere it goes on.
Exit ==
  /\ pc = "rejected"
  /\ \A w \in DOMAIN stage : stage[w] \in {"issued", "open"}
  /\ pc' = "exited"
  /\ UNCHANGED <<stateMap, idx, typeDecls, declOf, knownTypes, writes, pending, stage,
                 files, onEmitDone, thrown, calls, named>>

Init ==
  /\ stateMap = <<>>
  /\ pc = "compile"
  /\ idx = 0
  /\ typeDecls = <<>>
  /\ declOf = <<>>
  /\ knownTypes = <<>>
  /\ writes = <<>>
  /\ pending = {}
  /\ stage = <<>>
  /\ files = <<>>
  /\ onEmitDone = FALSE
  /\ thrown = ""
  /\ calls = <<>>
  /\ named = <<>>

Next ==
  \/ \E t \in Models : Store(t)
  \/ OnEmit
  \/ MkdirDone
  \/ Emit
  \/ \E w \in 1 .. Len(writes) : WriteOpen(w)
  \/ \E w \in 1 .. Len(writes) : WriteData(w)
  \/ \E w \in 1 .. Len(writes) : WriteDone(w)
  \/ Exit

Spec == Init /\ [][Next]_vars

-----------------------------------------------------------------------------
(* The resolver on its own: successive getTypeReference calls of one pass,   *)
(* as generateModelType's loop makes them, from a fresh emitter.            *)

\* A getTypeReference(type) call on the current closure state.
Resolve(t) ==
  /\ pc = "resolver"
  /\ Len(calls) < MaxCalls
  /\ \A i \in DOMAIN calls : calls[i].error = ""
  /\ \E r \in {getTypeReference(t, Emitter(typeDecls, declOf, knownTypes), 1)} :
         /\ typeDecls' = r.em.typeDecls
         /\ declOf' = r.em.declOf
         /\ knownTypes' = r.em.knownTypes
         /\ calls' = Append(calls, [type |-> t, value |-> r.value, error |-> r.error,
                                    before |-> Emitter(typeDecls, declOf, knownTypes), after |-> r.em])
  /\ UNCHANGED <<stateMap, pc, idx, writes, pending, stage, files, onEmitDone, thrown, named>>

\* A getModelDeclarationName(type) call.
Name(t) ==
  /\ pc = "resolver"
  /\ named = <<>>
  /\ calls = <<>>
  /\ pc' = "named"
  /\ \E r \in {getModelDeclarationName(t)} :
         named' = <<[type |-> t, value |-> r.value, error |-> r.error]>>
  /\ UNCHANGED <<stateMap, idx, typeDecls, declOf, knownTypes, writes, pending, stage,
                 files, onEmitDone, thrown, calls>>

ResolverInit ==
  /\ stateMap = <<>>
  /\ pc = "resolver"
  /\ idx = 0
  /\ typeDecls = createTsEmitter.typeDecls
  /\ declOf = createTsEmitter.declOf
  /\ knownTypes = createTsEmitter.knownTypes
  /\ writes = <<>>
  /\ pending = {}
  /\ stage = <<>>
  /\ files = <<>>
  /\ onEmitDone = FALSE
  /\ thrown = ""
  /\ calls = <<>>
  /\ named = <<>>

ResolverNext ==
  \/ \E t \in TypeIds : Resolve(t)
  \/ \E t \in Models : Name(t)

ResolverSpec == ResolverInit /\ [][ResolverNext]_vars

-----------------------------------------------------------------------------
(* Vocabulary of the properties. *)

Composite(t) == Types[t].kind = "Model" /\ Types[t].intrinsicName = ""
Intrinsic(t) == Types[t].kind = "Model" /\ Types[t].intrinsicName # ""

\* The Types a Type refers to where the resolver follows references.
Refs(t) ==
  CASE Composite(t) -> {Types[t].properties[i].type : i \in DOMAIN Types[t].properties}
    [] Types[t].kind = "Array" -> {Types[t].elementType}
    [] Types[t].kind = "Union" -> Range(Types[t].options)
    [] OTHER -> {}

RECURSIVE Closure(_)
Closure(S) ==
  LET more == S \cup UNION {Refs(t) : t \in S}
  IN  IF more = S THEN S ELSE Closure(more)

\* Everything reachable from t, t included / from what t refers to.
Reach(t) == Closure({t})
ReachFromRefs(t) == Closure(Refs(t))

\* t is reachable from itself: directly, or through arrays, unions or Models.
SelfReferential(t) == t \in ReachFromRefs(t)

\* The composite Models a Type refers to through arrays and unions only.
RECURSIVE Inline(_)
Inline(S) ==
  LET more == S \cup UNION {Refs(t) : t \in {s \in S : ~Composite(s)}}
  IN  IF more = S THEN S ELSE Inline(more)
DirectModels(t) == {m \in Inline(Refs(t)) : Composite(m)}

Count(x, s) == Cardinality({i \in DOMAIN s : s[i] = x})

\* The registration at position k has had its pass (completed or aborted).
PassRun(k) == k < idx \/ (pc \in {"rejected", "exited"} /\ k = idx)

-----------------------------------------------------------------------------
(* Properties of the program (specification Spec). *)

\* The history declOf runs parallel to typeDecls.
DeclOfParallel == Len(declOf) = Len(typeDecls)

\* C1: within one pass (one call of emitStoreInterface on a root) the
\* declaration list never holds two declarations of the same Model identity,
\* whatever the graph and the paths from the root to the Model; the same is
\* true of the declarations handed to writeFile.
NoDuplicateDeclarations ==
  /\ DeclOfParallel
  /\ \A i, j \in DOMAIN declOf : declOf[i] = declOf[j] => i = j
  /\ \A w \in DOMAIN writes :
       \A i, j \in DOMAIN writes[w].declOf :
         writes[w].declOf[i] = writes[w].declOf[j] => i = j

\* C1 witness: the pass of Owner, whose graph reaches Pet by three paths
\* (pet, others, friend), has run and declared Pet, User and Owner once each.
SharedModelDeclaredOnce ==
  \E w \in DOMAIN writes :
    /\ writes[w].model = "Owner"
    /\ writes[w].declOf = <<"Pet", "User", "Owner">>
    /\ declOf = writes[w].declOf

\* C3 as claimed: every artifact holds exactly one declaration of each
\* composite Model reachable from its own root, the root included, also when
\* an earlier registration's graph shares Models with it.
EveryArtifactDeclaresReachableModels ==
  \A w \in DOMAIN writes :
    \A m \in Reach(writes[w].model) :
      Composite(m) => Count(m, writes[w].declOf) = 1

\* C5 as claimed: no two writes are in flight at once, a root is resolved
\* only after the previous root's write has completed, and when $onEmit has
\* completed every registration's artifact has been written.
StrictlySequentialEmit ==
  /\ Cardinality(pending) <= 1
  /\ \A w \in pending : w = Len(writes)
  /\ onEmitDone =>
       \A k \in DOMAIN stateMap :
         \E w \in DOMAIN writes :
           /\ writes[w].model = stateMap[k]
           /\ w \notin pending

\* The file at the path of write w holds exactly the data of write w.
ArtifactOnDisk(w) ==
  /\ writes[w].path \in DOMAIN files
  /\ files[writes[w].path] = wholeData(w)

\* C7 as claimed: when a fatal error occurs while a registration's root is
\* resolved, no artifact is written for that registration, the artifacts of
\* the earlier registrations are untouched (once all activity has ended each
\* is on disk), and the abort affects the current registration only (every
\* other registration has had its pass).
AbortsCurrentRegistrationOnly ==
  pc \in {"rejected", "exited"} =>
    /\ \A w \in DOMAIN writes : writes[w].model # stateMap[idx]
    /\ (pc = "exited" \/ pending = {}) =>
         \A w \in DOMAIN writes : ArtifactOnDisk(w)
    /\ \A k \in DOMAIN stateMap : k # idx => PassRun(k)

-----------------------------------------------------------------------------
(* Properties of the resolver (specification ResolverSpec). *)

\* C2 as claimed: getTypeReference on a composite Model that refers to itself
\* (directly, or through arrays, unions or other Models) returns, and the
\* declaration list then holds exactly one declaration of that Model.
SelfReferentialModelResolves ==
  \A i \in DOMAIN calls :
    (Composite(calls[i].type) /\ SelfReferential(calls[i].type)) =>
      /\ calls[i].error = ""
      /\ Count(calls[i].type, calls[i].after.declOf) = 1

\* C4: a second getTypeReference(M) of the same pass, for a Model M whose
\* first call returned, returns the same reference and leaves the
\* declaration list as it was: nothing is declared again, neither M nor
\* anything reachable from M.  The first call may also have been made inside
\* the resolution of another Type: M is then in the memo table already.
SecondResolveIsIdempotent ==
  /\ \A i, j \in DOMAIN calls :
       (i < j /\ calls[i].type = calls[j].type /\ Types[calls[i].type].kind = "Model"
          /\ calls[i].error = "") =>
         /\ calls[j].error = ""
         /\ calls[j].value = calls[i].value
         /\ calls[j].after.typeDecls = calls[j].before.typeDecls
         /\ calls[j].after.declOf = calls[j].before.declOf
  /\ \A j \in DOMAIN calls :
       calls[j].type \in Range(calls[j].before.declOf) =>
         /\ calls[j].error = ""
         /\ calls[j].value = calls[j].before.knownTypes[calls[j].type]
         /\ calls[j].after = calls[j].before

\* C4 witness: Owner has been resolved twice in one pass; the first call
\* declared Pet, User and Owner.
ResolvedTwice ==
  /\ Len(calls) = 2
  /\ calls[1].type = "Owner"
  /\ calls[2].type = "Owner"
  /\ calls[1].after.declOf = <<"Pet", "User", "Owner">>
  /\ calls[2].value = "Owner"

\* The fixed table of the specification.
TargetTypeOf ==
  [n \in {"string", "int32", "int16", "float16", "float32", "int64", "boolean"} |->
     CASE n = "string" -> "string"
       [] n = "int64" -> "bigint"
       [] n = "boolean" -> "boolean"
       [] OTHER -> "number"]

\* C6: resolving an intrinsic Model whose intrinsic name is in the table
\* returns the table's target type and adds neither a declaration nor a memo
\* entry; with any other intrinsic name the call throws the unknown-intrinsic
\* Error (and still adds nothing).
IntrinsicResolution ==
  \A i \in DOMAIN calls :
    Intrinsic(calls[i].type) =>
      /\ calls[i].after = calls[i].before
      /\ IF Types[calls[i].type].intrinsicName \in DOMAIN TargetTypeOf
         THEN /\ calls[i].error = ""
              /\ calls[i].value = TargetTypeOf[Types[calls[i].type].intrinsicName]
         ELSE /\ calls[i].error =
                   "Unknown intrinsic type " \o Types[calls[i].type].intrinsicName
              /\ calls[i].value = ""

\* C6 witness: int64 has resolved to bigint, then float64 has thrown.
IntrinsicsResolved ==
  /\ Len(calls) = 2
  /\ calls[1].type = "int64" /\ calls[1].value = "bigint"
  /\ calls[2].type = "float64" /\ calls[2].error = "Unknown intrinsic type float64"
  /\ typeDecls = <<>> /\ DOMAIN knownTypes = {}

\* A template argument the naming convention covers: a Model, or an Array
\* whose element is a Model.
NameableArgument(a) ==
  \/ Types[a].kind = "Model"
  \/ Types[a].kind = "Array" /\ Types[Types[a].elementType].kind = "Model"
ArgumentModel(a) == IF Types[a].kind = "Model" THEN a ELSE Types[a].elementType
\* A Model all of whose template arguments, and theirs, are nameable.
RECURSIVE Nameable(_)
Nameable(m) ==
  \A i \in DOMAIN Types[m].templateArguments :
    /\ NameableArgument(Types[m].templateArguments[i])
    /\ Nameable(ArgumentModel(Types[m].templateArguments[i]))
\* A Type whose own resolution must fail: an intrinsic outside the table, a
\* composite without a synthesized name, a composite that refers to itself.
Unresolvable(t) ==
  \/ Intrinsic(t) /\ Types[t].intrinsicName \notin DOMAIN TargetTypeOf
  \/ Composite(t) /\ ~Nameable(t)
  \/ Composite(t) /\ SelfReferential(t)

\* C8: a Model's declaration is appended, and its memo entry recorded, only
\* after all its property types have been resolved successfully: every
\* composite Model its properties refer to is then in the memo table and, if
\* declared in this pass, declared before it; and a Model whose name
\* synthesis fails, or one of whose property types fails to resolve, has no
\* declaration and no memo entry.
DeclaredAfterProperties ==
  /\ \A i \in DOMAIN declOf :
       /\ declOf[i] \in DOMAIN knownTypes
       /\ \A n \in DirectModels(declOf[i]) :
            /\ n \in DOMAIN knownTypes
            /\ \A j \in DOMAIN declOf : declOf[j] = n => j < i
  /\ \A m \in Range(declOf) \cup DOMAIN knownTypes :
       \A t \in Reach(m) : ~Unresolvable(t)

\* C8 witness: Owner was declared after Pet and User, the Models its
\* properties refer to; then the resolution of Holder threw in the name
\* synthesis of its property type Box<42>, after Box<42>'s own property type
\* Pet was resolved, and neither Holder nor Box<42> is declared.
ParentDeclaredLast ==
  /\ Len(calls) = 2
  /\ calls[1].type = "Owner"
  /\ calls[2].type = "Holder"
  /\ calls[2].error # ""
  /\ declOf = <<"Pet", "User", "Owner">>

\* The name the naming convention gives a nameable Model: its base name,
\* then each argument's name in argument order with no separator, an Array
\* argument contributing its element's name plus 'Array'.
RECURSIVE SynthesizedName(_)
RECURSIVE ArgumentNames(_, _)
ArgumentNames(m, i) ==
  IF i > Len(Types[m].templateArguments) THEN ""
  ELSE (IF Types[Types[m].templateArguments[i]].kind = "Model"
        THEN SynthesizedName(Types[m].templateArguments[i])
        ELSE SynthesizedName(Types[Types[m].templateArguments[i]].elementType)
             \o "Array")
       \o ArgumentNames(m, i + 1)
SynthesizedName(m) == Types[m].name \o ArgumentNames(m, 1)

\* C9: getModelDeclarationName returns the Model's own name when it has no
\* template arguments, and otherwise the base name followed by the
\* arguments' synthesized names (Page<User> gives PageUser, Page<User[]>
\* gives PageUserArray); an argument that is neither a Model nor an Array of
\* a Model makes it throw the unsupported-template-argument Error.
DeclarationNameSynthesis ==
  \A i \in DOMAIN named :
    /\ IF Nameable(named[i].type)
       THEN named[i].error = "" /\ named[i].value = SynthesizedName(named[i].type)
       ELSE /\ named[i].value = ""
            /\ named[i].error =
                 "Can't get a name for non-model type used to instantiate a model template"
    /\ Len(Types[named[i].type].templateArguments) = 0 =>
         named[i].value = Types[named[i].type].name
    /\ named[i].type = "Page<User>" => named[i].value = "PageUser"
    /\ named[i].type = "Page<User[]>" => named[i].value = "PageUserArray"
    /\ named[i].type = "Pair<User,Pet>" => named[i].value = "PairUserPet"
    /\ named[i].type \in {"Box<42>", "Box<string|int32>", "Box<(string|int32)[]>"} =>
         named[i].error # ""

\* C9 witness: the name of Page<User[]> has been synthesized.
ArrayArgumentNamed ==
  named = <<[type |-> "Page<User[]>", value |-> "PageUserArray", error |-> ""]>>

\* The text of a numeric literal of the universe.
LiteralText(n) == CASE n = 42 -> "42" [] n = -7 -> "-7"

\* The reference of a Type given the memo table: what the specification says
\* a successful resolution returns.
RECURSIVE Reference(_, _)
RECURSIVE OptionReferences(_, _, _)
OptionReferences(options, i, known) ==
  IF i > Len(options) THEN ""
  ELSE IF i = Len(options) THEN Reference(options[i], known)
  ELSE Reference(options[i], known) \o "|" \o OptionReferences(options, i + 1, known)
Reference(t, known) ==
  CASE Composite(t) -> known[t]
    [] Intrinsic(t) -> TargetTypeOf[Types[t].intrinsicName]
    [] Types[t].kind = "Array" -> Reference(Types[t].elementType, known) \o "[]"
    [] Types[t].kind = "Union" -> OptionReferences(Types[t].options, 1, known)
    [] Types[t].kind = "Number" -> LiteralText(Types[t].value)
    [] OTHER -> "{}"

\* C10: resolving an Array, Union, Number or other non-Model Type never
\* declares or memoizes that Type itself.  An Array returns its element's
\* reference followed by '[]', a Union its options' references in order
\* joined by '|' (string|int32 gives 'string|number'), a Number its literal
\* text, any other kind '{}' without an Error; the declaration list and the
\* memo table grow only by the composite Models reached inside the Type.
InlineTypesAreNeverDeclared ==
  \A i \in DOMAIN calls :
    Types[calls[i].type].kind # "Model" =>
      /\ calls[i].type \notin DOMAIN calls[i].after.knownTypes
      /\ calls[i].type \notin Range(calls[i].after.declOf)
      /\ Len(calls[i].after.typeDecls) >= Len(calls[i].before.typeDecls)
      /\ SubSeq(calls[i].after.typeDecls, 1, Len(calls[i].before.typeDecls))
           = calls[i].before.typeDecls
      /\ \A k \in Len(calls[i].before.declOf) + 1 .. Len(calls[i].after.declOf) :
           /\ Composite(calls[i].after.declOf[k])
           /\ calls[i].after.declOf[k] \in Reach(calls[i].type)
      /\ DOMAIN calls[i].after.knownTypes =
           DOMAIN calls[i].before.knownTypes
             \cup {calls[i].after.declOf[k] :
                     k \in Len(calls[i].before.declOf) + 1 .. Len(calls[i].after.declOf)}
      /\ Types[calls[i].type].kind \notin {"Array", "Union"} =>
           calls[i].error = "" /\ calls[i].after = calls[i].before
      /\ calls[i].error = "" =>
           calls[i].value = Reference(calls[i].type, calls[i].after.knownTypes)
      /\ calls[i].type = "string|int32" =>
           calls[i].value = "string|number" /\ calls[i].after = calls[i].before

\* C10 witness: string|int32 has resolved to string|number with nothing
\* declared, then User|Pet has resolved and only User and Pet are declared.
UnionResolvedInline ==
  /\ Len(calls) = 2
  /\ calls[1].type = "string|int32" /\ calls[1].value = "string|number"
  /\ calls[1].after.typeDecls = <<>>
  /\ calls[2].type = "User|Pet" /\ calls[2].value = "User|Pet"
  /\ declOf = <<"User", "Pet">>
  /\ DOMAIN knownTypes = {"User", "Pet"}
====
